---- MODULE Spec2Model ----
(***************************************************************************)
(* Model of the mcp-miro protocol bridge: the MiroClient HTTP wrapper and  *)
(* the request handlers registered on the MCP server (tool invocation and  *)
(* resource read).                                                         *)
(*                                                                         *)
(* JavaScript objects are functions whose domain is the set of keys that   *)
(* hold a defined value: a key that is absent reads as undefined, which is *)
(* also what JSON.stringify sends for it (nothing).  Template strings are  *)
(* sequences of their pieces.  Every handler runs up to its next await in  *)
(* one step; the upstream answer to the request in flight is a step of its *)
(* own (Respond), after which the handler runs to its next await or to its *)
(* return.                                                                 *)
(***************************************************************************)
EXTENDS Integers, Sequences, FiniteSets, TLC

VARIABLES proc, pc, call, acc, log, headers, inflight, outcomes, result

vars == <<proc, pc, call, acc, log, headers, inflight, outcomes, result>>

\* ------------------------------------------------------------------ bounds
MaxIds == 3

\* ------------------------------------------------------- invocation slots
Slots == {"a", "b"}
Main == "a"

\* ------------------------------------------------------------ JS helpers
Has(o, k) == k \in DOMAIN o

\* `${o.k}` inside a template string: an undefined value prints "undefined"
Tpl(o, k) == IF Has(o, k) THEN o[k] ELSE "undefined"

Obj0 == [k \in {} |-> 0]

\* o with key k set to v
With(o, k, v) == [x \in (DOMAIN o) \cup {k} |-> IF x = k THEN v ELSE o[x]]

SeqsUpTo(S, n) == UNION {[1..k -> S] : k \in 0..n}

\* --------------------------------------------------------------- upstream
\* What the remote service can answer to one request: a status code and a
\* body that either decodes as JSON (an object with the fields present in
\* it) or does not (an empty body, as sent with 204).
ItemBody == [json |-> TRUE, fields |-> [id |-> "n1"]]
ListBody ==
    [json |-> TRUE,
     fields |-> [data |-> <<[id |-> "n1", name |-> "One", description |-> "D"],
                            [id |-> "n2", name |-> "Two"]>>,
                 cursor |-> "c2"]]
EmptyObjBody == [json |-> TRUE, fields |-> Obj0]
MessageBody == [json |-> TRUE, fields |-> [message |-> "Not found"]]
NoBody == [json |-> FALSE]

Responses ==
    { [status |-> 200, body |-> ItemBody],
      [status |-> 200, body |-> ListBody],
      [status |-> 200, body |-> EmptyObjBody],
      [status |-> 204, body |-> NoBody],
      [status |-> 404, body |-> MessageBody],
      [status |-> 500, body |-> EmptyObjBody],
      [status |-> 502, body |-> NoBody] }

\* ------------------------------------------------------------- MiroClient
\* The request fetchApi sends: method (GET when none is given), the path
\* under https://api.miro.com/v2, and the JSON text of the body when the
\* body is truthy.
GetReq(path) == [method |-> "GET", path |-> path, hasBody |-> FALSE]
DeleteReq(path) == [method |-> "DELETE", path |-> path, hasBody |-> FALSE]
PatchReq(path, body) == [method |-> "PATCH", path |-> path, hasBody |-> TRUE, body |-> body]
GetQuery(path, query) == [method |-> "GET", path |-> path, hasBody |-> FALSE, query |-> query]
PostReq(path, body) == [method |-> "POST", path |-> path, hasBody |-> TRUE, body |-> body]

\* What fetchApi makes of the answer: body.json() is awaited first (it
\* rejects on a body that is not JSON), then a status >= 400 throws, and
\* otherwise the decoded body is returned.
JsonError == [text |-> "Unexpected end of JSON input", status |-> 0, detail |-> ""]

fetchApi(resp) ==
    IF ~resp.body.json
    THEN [ok |-> FALSE, error |-> JsonError]
    ELSE IF resp.status >= 400
    THEN [ok |-> FALSE,
          error |-> [text |-> "Miro API error: ", status |-> resp.status,
                     detail |-> IF Has(resp.body.fields, "message")
                                THEN resp.body.fields["message"] ELSE ""]]
    ELSE [ok |-> TRUE, value |-> resp.body.fields]

\* deleteItem(boardId, itemId): DELETE /boards/{boardId}/items/{itemId}
deleteItem(boardId, itemId) == DeleteReq(<<"/boards/", boardId, "/items/", itemId>>)

\* ------------------------------------------------------ tool: bulk delete
ItemIdSet == {"i1", "i2"}
IdLists == SeqsUpTo(ItemIdSet, MaxIds)

BulkDeleteArgs ==
    {[boardId |-> "B1", itemIds |-> ids] : ids \in IdLists}
    \cup {[boardId |-> "B1"]}

NoError == [text |-> "", status |-> 0, detail |-> ""]
Acc0 == [results |-> <<>>, errors |-> <<>>, thrown |-> NoError]

\* The positions of itemIds whose delete is issued once `done` deletes of
\* the invocation have settled: the for loop awaits each deleteItem before
\* it moves on to the next id.
DeletesToIssueFanOut(ids, done) == IF done = 0 THEN 1..Len(ids) ELSE {}

DeletesToIssue(ids, done) == IF done < Len(ids) THEN {done + 1} ELSE {}

\* One pass of the loop body once the awaited deleteItem has settled: the
\* id is pushed on results, or the catch clause pushes {itemId, error}.
BulkDeleteIterationDropError(a, itemId, out) ==
    IF out.ok THEN [a EXCEPT !.results = Append(@, itemId)] ELSE a

BulkDeleteIterationRethrow(a, itemId, out) ==
    IF out.ok THEN [a EXCEPT !.results = Append(@, itemId)]
    ELSE [a EXCEPT !.thrown = out.error]

BulkDeleteIteration(a, itemId, out) ==
    IF out.ok
    THEN [a EXCEPT !.results = Append(@, itemId)]
    ELSE [a EXCEPT !.errors = Append(@, [itemId |-> itemId, error |-> out.error])]

\* The text block bulk_delete_items returns: the two counts, followed by
\* the JSON of the errors when there are any.
BulkDeleteResultNoDetail(a) ==
    [kind |-> "ok", tmpl |-> "Bulk delete completed",
     deleted |-> Len(a.results), errors |-> Len(a.errors), detail |-> <<>>]

BulkDeleteResult(a) ==
    [kind |-> "ok", tmpl |-> "Bulk delete completed",
     deleted |-> Len(a.results), errors |-> Len(a.errors),
     detail |-> IF Len(a.errors) > 0 THEN a.errors ELSE <<>>]

\* ---------------------------------------------------- MiroClient methods
createStickyNote(boardId, data) == PostReq(<<"/boards/", boardId, "/sticky_notes">>, data)

createShape(boardId, data) == PostReq(<<"/boards/", boardId, "/shapes">>, data)

createFrame(boardId, data) == PostReq(<<"/boards/", boardId, "/frames">>, data)

createCard(boardId, data) == PostReq(<<"/boards/", boardId, "/cards">>, data)

createConnector(boardId, data) == PostReq(<<"/boards/", boardId, "/connectors">>, data)

\* getBoardItems(boardId): GET /boards/{boardId}/items?limit=50
getBoardItems(boardId) == GetQuery(<<"/boards/", boardId, "/items">>, [limit |-> 50])

\* getBoards(): GET /boards
getBoards == GetReq(<<"/boards">>)

\* getFrames(boardId): GET /boards/{boardId}/items?type=frame&limit=50
getFrames(boardId) ==
    GetQuery(<<"/boards/", boardId, "/items">>, [type |-> "frame", limit |-> 50])

\* getItemsInFrame(boardId, frameId):
\* GET /boards/{boardId}/items?parent_item_id={frameId}&limit=50
getItemsInFrameUnfiltered(boardId, frameId) ==
    GetQuery(<<"/boards/", boardId, "/items">>, [limit |-> 50])

getItemsInFrame(boardId, frameId) ==
    GetQuery(<<"/boards/", boardId, "/items">>, [parent_item_id |-> frameId, limit |-> 50])

\* The client methods the handlers call for single items and connectors
getItem(boardId, itemId) == GetReq(<<"/boards/", boardId, "/items/", itemId>>)

updateItemPositionOrParent(boardId, itemId, data) ==
    PatchReq(<<"/boards/", boardId, "/items/", itemId>>, data)

getStickyNote(boardId, itemId) == GetReq(<<"/boards/", boardId, "/sticky_notes/", itemId>>)

updateStickyNote(boardId, itemId, data) ==
    PatchReq(<<"/boards/", boardId, "/sticky_notes/", itemId>>, data)

deleteStickyNote(boardId, itemId) == DeleteReq(<<"/boards/", boardId, "/sticky_notes/", itemId>>)

getConnectors(boardId, options) == GetQuery(<<"/boards/", boardId, "/connectors">>, options)

getConnector(boardId, connectorId) == GetReq(<<"/boards/", boardId, "/connectors/", connectorId>>)

updateConnector(boardId, connectorId, data) ==
    PatchReq(<<"/boards/", boardId, "/connectors/", connectorId>>, data)

deleteConnector(boardId, connectorId) ==
    DeleteReq(<<"/boards/", boardId, "/connectors/", connectorId>>)

createText(boardId, data) == PostReq(<<"/boards/", boardId, "/texts">>, data)

\* getItems(boardId, {limit, cursor}): the list request with limit and
\* cursor as query parameters
getItems(boardId, options) == GetQuery(<<"/boards/", boardId, "/items">>, options)

\* bulkCreateItems sends one POST to /boards/{boardId}/items/bulk with all
\* the items as its body (the body is left out when items is undefined).
bulkCreateItemsPerItem(boardId, args) ==
    LET items == IF Has(args, "items") THEN args["items"] ELSE <<>>
    IN [j \in 1..Len(items) |-> PostReq(<<"/boards/", boardId, "/items/bulk">>, <<items[j]>>)]

bulkCreateItems(boardId, args) ==
    IF Has(args, "items")
    THEN <<PostReq(<<"/boards/", boardId, "/items/bulk">>, args["items"])>>
    ELSE <<[method |-> "POST", path |-> <<"/boards/", boardId, "/items/bulk">>,
            hasBody |-> FALSE]>>

\* The other shape of bulkCreateItems calls request() itself, with the same
\* request, and makes its own error of a status >= 400: the message of the
\* body, or the status code when the body has none (status 0 in an error
\* stands for a text without status code).
bulkCreateItemsDirect(resp) ==
    IF ~resp.body.json
    THEN [ok |-> FALSE, error |-> JsonError]
    ELSE IF resp.status >= 400
    THEN [ok |-> FALSE,
          error |-> IF Has(resp.body.fields, "message")
                    THEN [text |-> "Miro API error: ", status |-> 0,
                          detail |-> resp.body.fields["message"]]
                    ELSE [text |-> "Miro API error: ", status |-> resp.status, detail |-> ""]]
    ELSE [ok |-> TRUE, value |-> resp.body.fields]

BulkCreateImpls == {"fetchApi", "direct"}

\* What bulkCreateItems returns for a decoded body: response.data ?? []
bulkCreated(fields) == IF Has(fields, "data") THEN fields["data"] ELSE <<>>

\* ------------------------------------------------------- handler payloads
\* The object literal {k: o.k, ...} over keys, as JSON.stringify sends it:
\* the members whose value is undefined are left out.
Pick(o, keys) == [k \in keys \cap DOMAIN o |-> o[k]]

\* v || d for an optional object argument
OrElse(o, k, d) == IF Has(o, k) THEN o[k] ELSE d

\* if (parent) data.parent = parent
WithParent(data, args) == IF Has(args, "parent") THEN With(data, "parent", args["parent"]) ELSE data

stickyNoteData(args) ==
    WithParent([data |-> Pick(args, {"content"}),
                style |-> [fillColor |-> OrElse(args, "color", "yellow")],
                position |-> [x |-> OrElse(args, "x", 0), y |-> OrElse(args, "y", 0)]],
               args)

shapeDataAsType(args) ==
    WithParent([data |-> (IF Has(args, "shape") THEN [type |-> args["shape"]] ELSE Obj0),
                style |-> OrElse(args, "style", Obj0),
                position |-> OrElse(args, "position", [x |-> 0, y |-> 0]),
                geometry |-> OrElse(args, "geometry", [width |-> 200, height |-> 200, rotation |-> 0])],
               args)

shapeDataNoDefaults(args) ==
    WithParent([data |-> Pick(args, {"shape", "content"}),
                style |-> OrElse(args, "style", Obj0),
                position |-> OrElse(args, "position", Obj0),
                geometry |-> OrElse(args, "geometry", Obj0)],
               args)

shapeData(args) ==
    WithParent([data |-> Pick(args, {"shape", "content"}),
                style |-> OrElse(args, "style", Obj0),
                position |-> OrElse(args, "position", [x |-> 0, y |-> 0]),
                geometry |-> OrElse(args, "geometry", [width |-> 200, height |-> 200, rotation |-> 0])],
               args)

frameDataOverridable(args) ==
    WithParent([data |-> With(With(Pick(args, {"title"}), "type", OrElse(args, "type", "freeform")),
                              "format", "custom"),
                style |-> OrElse(args, "style", [fillColor |-> "#ffffff"]),
                position |-> OrElse(args, "position", [x |-> 0, y |-> 0]),
                geometry |-> OrElse(args, "geometry", [width |-> 800, height |-> 600])],
               args)

frameData(args) ==
    [data |-> With(With(Pick(args, {"title"}), "type", "freeform"), "format", "custom"),
     style |-> OrElse(args, "style", [fillColor |-> "#ffffff"]),
     position |-> OrElse(args, "position", [x |-> 0, y |-> 0]),
     geometry |-> OrElse(args, "geometry", [width |-> 800, height |-> 600])]

cardData(args) ==
    WithParent([data |-> Pick(args, {"title", "description", "assigneeId", "dueDate"}),
                style |-> OrElse(args, "style", Obj0),
                position |-> OrElse(args, "position", [x |-> 0, y |-> 0]),
                geometry |-> OrElse(args, "geometry", [width |-> 320, height |-> 176])],
               args)

textData(args) ==
    WithParent([data |-> Pick(args, {"content"}),
                style |-> OrElse(args, "style", Obj0),
                position |-> OrElse(args, "position", [x |-> 0, y |-> 0]),
                geometry |-> OrElse(args, "geometry", [width |-> 200])],
               args)

\* const updateData = {}; if (v) updateData.k = v, for the keys given
updateData(args, keys) == Pick(args, keys)

\* update_sticky_note: content goes under data, color under style
stickyUpdateData(args) ==
    (IF Has(args, "content") THEN [data |-> [content |-> args["content"]]] ELSE Obj0) @@
    (IF Has(args, "color") THEN [style |-> [fillColor |-> args["color"]]] ELSE Obj0)

connectorData(args) ==
    Pick(args, {"startItem", "endItem"}) @@
    [shape |-> OrElse(args, "shape", "curved"),
     style |-> OrElse(args, "style",
                      [strokeColor |-> "#333333", strokeWidth |-> 2,
                       strokeStyle |-> "normal", endStrokeCap |-> "rounded_stealth"]),
     captions |-> OrElse(args, "captions", <<>>)]

\* --------------------------------------------------------- tool arguments
\* S, and every member of S with key k set to a value of V
Opt(S, k, V) == S \cup {With(a, k, v) : a \in S, v \in V}

Positions == {[x |-> 5, y |-> 7], [x |-> 5]}

StickyArgs ==
    Opt(Opt(Opt(Opt(Opt({[boardId |-> "B1"]}, "content", {"Hi"}), "color", {"blue"}),
        "x", {5}), "y", {7}), "parent", {[id |-> "F1"]})

ShapeArgs ==
    Opt(Opt(Opt(Opt(Opt(Opt({[boardId |-> "B1"]}, "shape", {"rectangle", "circle"}),
        "content", {"Hi"}), "type", {"circle"}), "position", Positions),
        "geometry", {[width |-> 100, height |-> 50, rotation |-> 90], [width |-> 100]}),
        "parent", {[id |-> "F1"]})

FrameArgs ==
    Opt(Opt(Opt(Opt(Opt(Opt({[boardId |-> "B1"]}, "title", {"T"}), "position", Positions),
        "geometry", {[width |-> 100, height |-> 50], [width |-> 100]}),
        "style", {[fillColor |-> "#000000"]}),
        "type", {"other"}), "parent", {[id |-> "F1"]})

CardArgs ==
    Opt(Opt(Opt(Opt(Opt({[boardId |-> "B1"]}, "title", {"T"}), "description", {"D"}),
        "position", Positions),
        "geometry", {[width |-> 400, height |-> 200], [width |-> 400]}),
        "parent", {[id |-> "F1"]})

ConnectorArgs ==
    Opt(Opt(Opt({[boardId |-> "B1"]}, "startItem", {[id |-> "i1"]}),
        "endItem", {[id |-> "i2"]}), "shape", {"straight", "elbowed"})

\* boardId and one id, each given or left out
IdArgs(key) == Opt(Opt({Obj0}, "boardId", {"B1"}), key, {"i1"})

UpdatePositionArgs ==
    Opt(Opt(IdArgs("itemId"), "position", {[x |-> 5, y |-> 7]}), "parent", {[id |-> "F1"]})

UpdateStickyArgs == Opt(Opt(IdArgs("itemId"), "content", {"Hi"}), "color", {"blue"})

UpdateConnectorArgs ==
    Opt(Opt(IdArgs("connectorId"), "startItem", {[id |-> "i1"]}),
        "style", {[strokeColor |-> "#000000"]})

FramesArgs == Opt(Opt({[boardId |-> "B1"]}, "limit", {10}), "cursor", {"c1"})

ItemsInFrameArgs ==
    Opt(Opt(Opt({[boardId |-> "B1"]}, "frameId", {"F1", "F2"}), "limit", {10}), "cursor", {"c1"})

TextArgs ==
    Opt(Opt(Opt(Opt({[boardId |-> "B1"]}, "content", {"Hi"}), "position", Positions),
        "geometry", {[width |-> 100]}), "parent", {[id |-> "F1"]})

GetAllItemsArgs ==
    Opt(Opt(Opt({Obj0}, "boardId", {"B1"}), "limit", {10}), "cursor", {"c1"})

MaxItems == 2
ItemSpecs == {[type |-> "sticky_note"], [type |-> "shape"]}

BulkCreateArgs ==
    Opt(Opt({Obj0}, "boardId", {"B1"}), "items", SeqsUpTo(ItemSpecs, MaxItems))

\* The arguments each tool's inputSchema lists as required
Required(name) ==
    CASE name = "get_all_items" -> {"boardId"}
      [] name = "bulk_delete_items" -> {"boardId", "itemIds"}
      [] name = "create_sticky_note" -> {"boardId", "content"}
      [] name = "create_shape" -> {"boardId", "shape"}
      [] name = "create_connector" -> {"boardId", "startItem", "endItem"}
      [] name = "create_frame" -> {"boardId", "title"}
      [] name = "create_card" -> {"boardId", "title"}
      [] name = "bulk_create_items" -> {"boardId", "items"}
      [] name \in {"get_specific_item", "update_item_position", "delete_item",
                   "get_sticky_note", "update_sticky_note", "delete_sticky_note"} ->
             {"boardId", "itemId"}
      [] name \in {"get_connector", "update_connector", "delete_connector"} ->
             {"boardId", "connectorId"}
      [] name \in {"get_connectors", "get_frames"} -> {"boardId"}
      [] name = "get_items_in_frame" -> {"boardId", "frameId"}
      [] name = "create_text" -> {"boardId", "content"}
      [] OTHER -> {}

\* The case labels of the switch on request.params.name
ToolNames ==
    {"list_boards", "get_all_items", "get_specific_item", "update_item_position",
     "delete_item", "bulk_delete_items", "create_sticky_note", "get_sticky_note",
     "update_sticky_note", "delete_sticky_note", "create_shape", "create_connector",
     "get_connectors", "get_connector", "update_connector", "delete_connector",
     "create_frame", "get_frames", "get_items_in_frame", "create_text",
     "create_card", "bulk_create_items"}

\* ------------------------------------------------------------ invocations
NoCall == [kind |-> "none", name |-> "", args |-> Obj0]
NoResult == [kind |-> "none"]

ErrorResult(err) == [kind |-> "error", error |-> err]
TypeError(text) == [text |-> text, status |-> 0, detail |-> ""]

\* ---------------------------------------------------------------- startup
\* The token given on the command line and the one of the environment
\* variable MIRO_OAUTH_TOKEN; "" stands for a token that is not given (or
\* given empty), which is falsy like undefined.
ArgvTokens == {"", "tA"}
EnvTokens == {"", "tE"}

\* (argv.token as string) || process.env.MIRO_OAUTH_TOKEN
oauthTokenEnvFirst(argv, env) == IF env # "" THEN env ELSE argv

oauthToken(argv, env) == IF argv # "" THEN argv ELSE env

\* served counts the invocations answered so far, for the specification
\* that observes it (SpecSeq); the program keeps no such count.
Starting(argv, env) ==
    [state |-> "starting", argv |-> argv, env |-> env, token |-> "", code |-> 0, served |-> 0]
Exited(p, code) == [p EXCEPT !.state = "exited", !.code = code]
Running(p, token) == [p EXCEPT !.state = "running", !.token = token]

\* The top level of the program, up to the construction of the client: the
\* process exits with code 1 when there is no token.
StartupNoCheck ==
    /\ proc.state = "starting"
    /\ proc' = Running(proc, oauthToken(proc.argv, proc.env))
    /\ UNCHANGED <<pc, call, acc, log, headers, inflight, outcomes, result>>

Startup ==
    /\ proc.state = "starting"
    /\ proc' = IF oauthToken(proc.argv, proc.env) = "" THEN Exited(proc, 1)
               ELSE Running(proc, oauthToken(proc.argv, proc.env))
    /\ UNCHANGED <<pc, call, acc, log, headers, inflight, outcomes, result>>

\* The server is connected and slot s is free for a request.
Idle(s) == proc.state = "running" /\ pc[s] = "idle"

Init ==
    /\ proc \in {Starting(argv, env) : argv \in ArgvTokens, env \in EnvTokens}
    /\ pc = [s \in Slots |-> "idle"]
    /\ call = [s \in Slots |-> NoCall]
    /\ acc = [s \in Slots |-> Acc0]
    /\ log = [s \in Slots |-> <<>>]
    /\ headers = [s \in Slots |-> <<>>]
    /\ inflight = [s \in Slots |-> {}]
    /\ outcomes = [s \in Slots |-> <<>>]
    /\ result = [s \in Slots |-> NoResult]

\* The headers of n requests sent by the client: fetchApi attaches the
\* token the client was constructed with and the JSON content type.
HeadersNoToken(n) ==
    [j \in 1..n |-> [Authorization |-> <<"Bearer ", "">>, ContentType |-> "application/json"]]

Headers(n) ==
    [j \in 1..n |-> [Authorization |-> <<"Bearer ", proc.token>>,
                      ContentType |-> "application/json"]]

\* The handler of slot s has run to its first await, with req sent.
AwaitTwice(s, c, req) ==
    /\ pc' = [pc EXCEPT ![s] = "awaiting"]
    /\ call' = [call EXCEPT ![s] = c]
    /\ log' = [log EXCEPT ![s] = <<req, req>>]
    /\ headers' = [headers EXCEPT ![s] = Headers(2)]
    /\ inflight' = [inflight EXCEPT ![s] = {1, 2}]
    /\ UNCHANGED <<proc, acc, outcomes, result>>

Await(s, c, req) ==
    /\ pc' = [pc EXCEPT ![s] = "awaiting"]
    /\ call' = [call EXCEPT ![s] = c]
    /\ log' = [log EXCEPT ![s] = <<req>>]
    /\ headers' = [headers EXCEPT ![s] = Headers(1)]
    /\ inflight' = [inflight EXCEPT ![s] = {1}]
    /\ UNCHANGED <<proc, acc, outcomes, result>>

\* The handler of slot s has ended before any await, with result res: a
\* thrown error is answered to the caller as the error of this request.
EndAtOnceCrash(s, c, res) ==
    /\ pc' = [pc EXCEPT ![s] = "done"]
    /\ call' = [call EXCEPT ![s] = c]
    /\ result' = [result EXCEPT ![s] = res]
    /\ proc' = IF res.kind = "error" THEN Exited(proc, 1) ELSE proc
    /\ UNCHANGED <<acc, log, headers, inflight, outcomes>>

EndAtOnce(s, c, res) ==
    /\ pc' = [pc EXCEPT ![s] = "done"]
    /\ call' = [call EXCEPT ![s] = c]
    /\ result' = [result EXCEPT ![s] = res]
    /\ UNCHANGED <<proc, acc, log, headers, inflight, outcomes>>

\* The handler of slot s, resumed by the answer to request k, has ended.
EndAfter(s, k, resp, out, res) ==
    /\ pc' = [pc EXCEPT ![s] = "done"]
    /\ result' = [result EXCEPT ![s] = res]
    /\ inflight' = [inflight EXCEPT ![s] = @ \ {k}]
    /\ outcomes' = [outcomes EXCEPT ![s] = Append(@, [req |-> k, resp |-> resp, out |-> out])]
    /\ UNCHANGED <<proc, call, log, headers>>

\* The delete requests of positions P (consecutive positions) of ids, in order.
DeleteRequests(boardId, ids, P) ==
    IF P = {} THEN <<>>
    ELSE LET lo == CHOOSE p \in P : \A q \in P : p <= q
         IN [j \in 1..Cardinality(P) |-> deleteItem(boardId, ids[lo + j - 1])]

\* case "bulk_delete_items", up to the first await, for arguments of Args
CallBulkDeleteOf(s, Args) ==
    /\ Idle(s)
    /\ \E args \in Args :
         LET c == [kind |-> "tool", name |-> "bulk_delete_items", args |-> args] IN
         IF ~Has(args, "itemIds")
         THEN EndAtOnce(s, c, ErrorResult(TypeError("itemIds is not iterable")))
         ELSE LET ids == args["itemIds"]
                  P == DeletesToIssue(ids, 0)
              IN IF P = {}
                 THEN EndAtOnce(s, c, BulkDeleteResult(Acc0))
                 ELSE /\ pc' = [pc EXCEPT ![s] = "awaiting"]
                      /\ call' = [call EXCEPT ![s] = c]
                      /\ log' = [log EXCEPT ![s] = DeleteRequests(Tpl(args, "boardId"), ids, P)]
                      /\ headers' = [headers EXCEPT ![s] = Headers(Cardinality(P))]
                      /\ inflight' = [inflight EXCEPT ![s] = P]
                      /\ UNCHANGED <<proc, acc, outcomes, result>>

CallBulkDelete(s) == CallBulkDeleteOf(s, BulkDeleteArgs)

\* case "bulk_delete_items", resumed by the answer resp to the delete of
\* position k: the loop body ends, and the loop goes on or the handler returns.
RespondBulkDeleteShared(s, k, resp) ==
    LET args == call[s].args
        ids == args["itemIds"]
        out == fetchApi(resp)
        a == BulkDeleteIteration(acc[Main], ids[k], out)
        P == DeletesToIssue(ids, Len(outcomes[s]) + 1)
        rest == inflight[s] \ {k}
    IN /\ acc' = [t \in Slots |-> a]
       /\ IF P = {} /\ rest = {}
          THEN EndAfter(s, k, resp, out, BulkDeleteResult(a))
          ELSE /\ log' = [log EXCEPT ![s] = @ \o DeleteRequests(Tpl(args, "boardId"), ids, P)]
               /\ headers' = [headers EXCEPT ![s] = @ \o Headers(Cardinality(P))]
               /\ inflight' = [inflight EXCEPT ![s] = rest \cup P]
               /\ outcomes' = [outcomes EXCEPT ![s] = Append(@, [req |-> k, resp |-> resp, out |-> out])]
               /\ UNCHANGED <<proc, pc, call, result>>

RespondBulkDeleteRetry(s, k, resp) ==
    LET args == call[s].args
        ids == args["itemIds"]
        out == fetchApi(resp)
        a == BulkDeleteIteration(acc[s], ids[k], out)
        P == DeletesToIssue(ids, Len(outcomes[s]) + 1)
        rest == inflight[s] \ {k}
    IN IF ~out.ok /\ Len(log[s]) <= Len(ids)
       THEN /\ log' = [log EXCEPT ![s] = Append(@, deleteItem(Tpl(args, "boardId"), ids[k]))]
            /\ headers' = [headers EXCEPT ![s] = @ \o Headers(1)]
            /\ UNCHANGED <<proc, pc, call, acc, inflight, outcomes, result>>
       ELSE /\ acc' = [acc EXCEPT ![s] = a]
            /\ IF P = {} /\ rest = {}
               THEN EndAfter(s, k, resp, out, BulkDeleteResult(a))
               ELSE /\ log' = [log EXCEPT ![s] = @ \o DeleteRequests(Tpl(args, "boardId"), ids, P)]
                    /\ headers' = [headers EXCEPT ![s] = @ \o Headers(Cardinality(P))]
                    /\ inflight' = [inflight EXCEPT ![s] = rest \cup P]
                    /\ outcomes' = [outcomes EXCEPT ![s] = Append(@, [req |-> k, resp |-> resp, out |-> out])]
                    /\ UNCHANGED <<proc, pc, call, result>>

RespondBulkDelete(s, k, resp) ==
    LET args == call[s].args
        ids == args["itemIds"]
        out == fetchApi(resp)
        a == BulkDeleteIteration(acc[s], ids[k], out)
        P == DeletesToIssue(ids, Len(outcomes[s]) + 1)
        rest == inflight[s] \ {k}
    IN /\ acc' = [acc EXCEPT ![s] = a]
       /\ IF a.thrown # NoError
          THEN EndAfter(s, k, resp, out, ErrorResult(a.thrown))
          ELSE IF P = {} /\ rest = {}
          THEN EndAfter(s, k, resp, out, BulkDeleteResult(a))
          ELSE /\ log' = [log EXCEPT ![s] = @ \o DeleteRequests(Tpl(args, "boardId"), ids, P)]
               /\ headers' = [headers EXCEPT ![s] = @ \o Headers(Cardinality(P))]
               /\ inflight' = [inflight EXCEPT ![s] = rest \cup P]
               /\ outcomes' = [outcomes EXCEPT ![s] = Append(@, [req |-> k, resp |-> resp, out |-> out])]
               /\ UNCHANGED <<proc, pc, call, result>>

ToolCall(name, args) == [kind |-> "tool", name |-> name, args |-> args]

Text(t) == [kind |-> "ok", text |-> t]

\* case "create_sticky_note"
CallCreateStickyNote(s) ==
    /\ Idle(s)
    /\ \E args \in StickyArgs :
         Await(s, ToolCall("create_sticky_note", args),
               createStickyNote(Tpl(args, "boardId"), stickyNoteData(args)))

\* case "create_shape"
CallCreateShape(s) ==
    /\ Idle(s)
    /\ \E args \in ShapeArgs :
         Await(s, ToolCall("create_shape", args),
               createShape(Tpl(args, "boardId"), shapeData(args)))

\* case "create_connector"
CallCreateConnector(s) ==
    /\ Idle(s)
    /\ \E args \in ConnectorArgs :
         Await(s, ToolCall("create_connector", args),
               createConnector(Tpl(args, "boardId"), connectorData(args)))

\* case "create_frame"
CallCreateFrame(s) ==
    /\ Idle(s)
    /\ \E args \in FrameArgs :
         Await(s, ToolCall("create_frame", args),
               createFrame(Tpl(args, "boardId"), frameData(args)))

\* case "create_card"
CallCreateCard(s) ==
    /\ Idle(s)
    /\ \E args \in CardArgs :
         Await(s, ToolCall("create_card", args),
               createCard(Tpl(args, "boardId"), cardData(args)))

\* case "get_all_items": limit = 50 when it is left out
CallGetAllItems(s) ==
    /\ Idle(s)
    /\ \E args \in GetAllItemsArgs :
         Await(s, ToolCall("get_all_items", args),
               getItems(Tpl(args, "boardId"),
                        With(Pick(args, {"cursor"}), "limit", OrElse(args, "limit", 50))))

\* case "bulk_create_items"
CallBulkCreate(s) ==
    /\ Idle(s)
    /\ \E args \in BulkCreateArgs, impl \in BulkCreateImpls :
         LET reqs == bulkCreateItems(Tpl(args, "boardId"), args) IN
         /\ pc' = [pc EXCEPT ![s] = "awaiting"]
         /\ call' = [call EXCEPT ![s] = With(ToolCall("bulk_create_items", args), "impl", impl)]
         /\ log' = [log EXCEPT ![s] = reqs]
         /\ headers' = [headers EXCEPT ![s] = Headers(Len(reqs))]
         /\ inflight' = [inflight EXCEPT ![s] = 1..Len(reqs)]
         /\ UNCHANGED <<proc, acc, outcomes, result>>

\* case "list_boards"
CallListBoards(s) ==
    /\ Idle(s)
    /\ \E args \in {Obj0, [boardId |-> "B1"]} :
         Await(s, ToolCall("list_boards", args), getBoards)

\* case "get_specific_item"
CallGetSpecificItem(s) ==
    /\ Idle(s)
    /\ \E args \in IdArgs("itemId") :
         Await(s, ToolCall("get_specific_item", args),
               getItem(Tpl(args, "boardId"), Tpl(args, "itemId")))

\* case "update_item_position"
CallUpdateItemPosition(s) ==
    /\ Idle(s)
    /\ \E args \in UpdatePositionArgs :
         Await(s, ToolCall("update_item_position", args),
               updateItemPositionOrParent(Tpl(args, "boardId"), Tpl(args, "itemId"),
                                          updateData(args, {"position", "parent"})))

\* case "delete_item"
CallDeleteItem(s) ==
    /\ Idle(s)
    /\ \E args \in IdArgs("itemId") :
         Await(s, ToolCall("delete_item", args),
               deleteItem(Tpl(args, "boardId"), Tpl(args, "itemId")))

\* case "get_sticky_note"
CallGetStickyNote(s) ==
    /\ Idle(s)
    /\ \E args \in IdArgs("itemId") :
         Await(s, ToolCall("get_sticky_note", args),
               getStickyNote(Tpl(args, "boardId"), Tpl(args, "itemId")))

\* case "update_sticky_note"
CallUpdateStickyNote(s) ==
    /\ Idle(s)
    /\ \E args \in UpdateStickyArgs :
         Await(s, ToolCall("update_sticky_note", args),
               updateStickyNote(Tpl(args, "boardId"), Tpl(args, "itemId"),
                                stickyUpdateData(args)))

\* case "delete_sticky_note"
CallDeleteStickyNote(s) ==
    /\ Idle(s)
    /\ \E args \in IdArgs("itemId") :
         Await(s, ToolCall("delete_sticky_note", args),
               deleteStickyNote(Tpl(args, "boardId"), Tpl(args, "itemId")))

\* case "get_connectors": limit = 50 when it is left out
CallGetConnectors(s) ==
    /\ Idle(s)
    /\ \E args \in GetAllItemsArgs :
         Await(s, ToolCall("get_connectors", args),
               getConnectors(Tpl(args, "boardId"),
                             With(Pick(args, {"cursor"}), "limit", OrElse(args, "limit", 50))))

\* case "get_connector"
CallGetConnector(s) ==
    /\ Idle(s)
    /\ \E args \in IdArgs("connectorId") :
         Await(s, ToolCall("get_connector", args),
               getConnector(Tpl(args, "boardId"), Tpl(args, "connectorId")))

\* case "update_connector"
CallUpdateConnector(s) ==
    /\ Idle(s)
    /\ \E args \in UpdateConnectorArgs :
         Await(s, ToolCall("update_connector", args),
               updateConnector(Tpl(args, "boardId"), Tpl(args, "connectorId"),
                               updateData(args, {"startItem", "endItem", "style"})))

\* case "delete_connector"
CallDeleteConnector(s) ==
    /\ Idle(s)
    /\ \E args \in IdArgs("connectorId") :
         Await(s, ToolCall("delete_connector", args),
               deleteConnector(Tpl(args, "boardId"), Tpl(args, "connectorId")))

\* case "get_frames"
CallGetFrames(s) ==
    /\ Idle(s)
    /\ \E args \in FramesArgs :
         Await(s, ToolCall("get_frames", args), getFrames(Tpl(args, "boardId")))

\* case "get_items_in_frame"
CallGetItemsInFrame(s) ==
    /\ Idle(s)
    /\ \E args \in ItemsInFrameArgs :
         Await(s, ToolCall("get_items_in_frame", args),
               getItemsInFrame(Tpl(args, "boardId"), Tpl(args, "frameId")))

\* case "create_text"
CallCreateText(s) ==
    /\ Idle(s)
    /\ \E args \in TextArgs :
         Await(s, ToolCall("create_text", args),
               createText(Tpl(args, "boardId"), textData(args)))

\* default: of the switch
UnknownNames == {"frobnicate", "bulk_delete"}

CallUnknownNoCheck(s, name, args) ==
    /\ Idle(s)
    /\ Await(s, ToolCall(name, args),
             getBoardItems(Tpl(args, "boardId")))

CallUnknown(s, name, args) ==
    /\ Idle(s)
    /\ EndAtOnce(s, ToolCall(name, args), ErrorResult(TypeError("Unknown tool")))

\* What getBoardItems returns for a decoded body: response.data ?? []
boardItems(fields) == IF Has(fields, "data") THEN fields["data"] ELSE <<>>

\* text: JSON.stringify(v, null, 2), for an object and for an array
JsonResultAsSummary(v) == [kind |-> "ok", text |-> <<"Done">>]

JsonResult(v) == [kind |-> "ok", json |-> v]

JsonArray(a) == [kind |-> "ok", jsonArray |-> a]

\* list_boards: a heading block, then one text block per board
BoardBlocks(boards) ==
    <<<<"Here are the available Miro boards:">>>> \o
    [j \in 1..Len(boards) |->
        <<"Board ID: ", Tpl(boards[j], "id"), ", Name: ", Tpl(boards[j], "name")>>]

\* The boards the upstream can answer to the resource listing: the id of a
\* board is the sequence of its characters.
BoardIds ==
    { <<"b", "1">>, <<"b", "=">>, <<"b", "/", "1">>, <<"b", "?", "1">>,
      <<"b", "#", "1">>, <<"b", "%", "1">> }

Boards ==
    {[id |-> id, name |-> "One"] : id \in BoardIds}
    \cup {[id |-> <<"b", "1">>, name |-> "One", description |-> "D"]}

ListResponses ==
    {[status |-> 200, body |-> [json |-> TRUE, fields |-> [data |-> <<b>>]]] : b \in Boards}
    \cup {[status |-> 200, body |-> [json |-> TRUE,
                                     fields |-> [data |-> <<[id |-> <<"b", "1">>, name |-> "One"],
                                                            [id |-> <<"b", "?", "1">>, name |-> "Two"]>>]]],
          [status |-> 200, body |-> EmptyObjBody],
          [status |-> 404, body |-> MessageBody]}

\* The literal at the head of the template string of the listing
ListPrefix == <<"m", "i", "r", "o", ":", "/", "/", "b", "o", "a", "r", "d", "/">>

\* boards.map(board => ({uri: `miro://board/${board.id}`, ...}))
Resources(boards) ==
    [j \in 1..Len(boards) |->
        [uri |-> ListPrefix \o boards[j]["id"],
         mimeType |-> "application/json",
         name |-> Tpl(boards[j], "name"),
         description |-> IF Has(boards[j], "description") THEN <<boards[j]["description"]>>
                         ELSE <<"Miro board: ", Tpl(boards[j], "name")>>]]

\* What a handler with a single await returns once the awaited client call
\* has settled with out: a rejection leaves the handler as its error.
Finish(name, args, out) ==
    IF ~out.ok THEN ErrorResult(out.error)
    ELSE LET v == out.value
             b == Tpl(args, "boardId")
         IN CASE name = "create_sticky_note" ->
                   Text(<<"Created sticky note ", Tpl(v, "id"), " on board ", b>>)
              [] name = "create_shape" ->
                   Text(<<"Created ", Tpl(args, "shape"), " shape with ID ", Tpl(v, "id"),
                          " on board ", b>>)
              [] name = "create_connector" ->
                   IF Has(args, "startItem") /\ Has(args, "endItem")
                   THEN Text(<<"Created connector ", Tpl(v, "id"), " from ",
                               Tpl(args["startItem"], "id"), " to ", Tpl(args["endItem"], "id")>>)
                   ELSE ErrorResult(TypeError("Cannot read properties of undefined (reading 'id')"))
              [] name = "create_frame" ->
                   Text(<<"Created frame \"", Tpl(args, "title"), "\" with ID ", Tpl(v, "id"),
                          " on board ", b>>)
              [] name = "create_card" ->
                   Text(<<"Created card \"", Tpl(args, "title"), "\" with ID ", Tpl(v, "id"),
                          " on board ", b>>)
              [] name = "list_boards" ->
                   IF Has(v, "data")
                   THEN [kind |-> "ok", blocks |-> BoardBlocks(v["data"])]
                   ELSE ErrorResult(TypeError("Cannot read properties of undefined (reading 'map')"))
              [] name \in {"get_all_items", "get_specific_item", "get_sticky_note",
                           "get_connectors", "get_connector"} -> JsonResult(v)
              [] name \in {"get_frames", "get_items_in_frame"} -> JsonArray(boardItems(v))
              [] name = "update_item_position" ->
                   Text(<<"Updated item ", Tpl(args, "itemId"), " position/parent on board ", b>>)
              [] name = "delete_item" ->
                   Text(<<"Deleted item ", Tpl(args, "itemId"), " from board ", b>>)
              [] name = "update_sticky_note" ->
                   Text(<<"Updated sticky note ", Tpl(args, "itemId"), " on board ", b>>)
              [] name = "delete_sticky_note" ->
                   Text(<<"Deleted sticky note ", Tpl(args, "itemId"), " from board ", b>>)
              [] name = "update_connector" ->
                   Text(<<"Updated connector ", Tpl(args, "connectorId"), " on board ", b>>)
              [] name = "delete_connector" ->
                   Text(<<"Deleted connector ", Tpl(args, "connectorId"), " from board ", b>>)
              [] name = "create_text" ->
                   Text(<<"Created text item with ID ", Tpl(v, "id"), " on board ", b>>)
              [] name = "bulk_create_items" ->
                   [kind |-> "ok", tmpl |-> "Created items",
                    created |-> Len(bulkCreated(v)), board |-> b]
              [] name = "resources/list" ->
                   IF Has(v, "data")
                   THEN [kind |-> "ok", resources |-> Resources(v["data"])]
                   ELSE ErrorResult(TypeError("Cannot read properties of undefined (reading 'map')"))
              [] name = "resources/read" ->
                   With(JsonArray(boardItems(v)), "uri", args["uri"])
              [] OTHER -> NoResult

\* What the client method called by c makes of the answer resp
ClientOutcome(c, resp) ==
    IF c.name = "bulk_create_items" /\ c["impl"] = "direct"
    THEN bulkCreateItemsDirect(resp)
    ELSE fetchApi(resp)

\* The upstream answers request k of slot s with an answer of R.
RespondOf(s, R) ==
    /\ proc.state = "running"
    /\ pc[s] = "awaiting"
    /\ \E k \in inflight[s], resp \in R :
         IF call[s].name = "bulk_delete_items"
         THEN RespondBulkDelete(s, k, resp)
         ELSE /\ EndAfter(s, k, resp, ClientOutcome(call[s], resp),
                          Finish(call[s].name, call[s].args, ClientOutcome(call[s], resp)))
              /\ UNCHANGED acc

Respond(s) ==
    RespondOf(s, IF call[s].name = "resources/list" THEN ListResponses ELSE Responses)

\* ---------------------------------------------------------- resource read
\* A resource identifier is the sequence of its characters.
Prefix == <<"m", "i", "r", "o", ":", "/", "/", "b", "o", "a", "r", "d", "/">>

UriHeads ==
    { Prefix,
      <<"m", "i", "r", "o", ":", "/", "/", "b", "o", "a", "r", "d">>,
      <<"m", "i", "r", "o", ":", "/", "b", "o", "a", "r", "d", "/">>,
      <<"h", "t", "t", "p", ":", "/", "/", "b", "o", "a", "r", "d", "/">>,
      <<"b", "o", "a", "r", "d", "/">>,
      <<>> }

MaxTail == 2
TailChars == {"b", "1", "/", "?"}

Uris == {h \o t : h \in UriHeads, t \in SeqsUpTo(TailChars, MaxTail)}

\* String.prototype.startsWith
startsWith(u, p) == Len(u) >= Len(p) /\ SubSeq(u, 1, Len(p)) = p

\* String.prototype.substring(1)
substring1(u) == IF Len(u) = 0 THEN <<>> ELSE SubSeq(u, 2, Len(u))

Letters == {"a", "b", "d", "h", "i", "m", "o", "p", "r", "t"}
SchemeChars == Letters \cup {"1"}

\* The first position of u from position `from` on that holds a character
\* of S, or Len(u) + 1 when there is none
FirstOf(u, from, S) ==
    LET hits == {i \in from..Len(u) : u[i] \in S}
    IN IF hits = {} THEN Len(u) + 1 ELSE CHOOSE i \in hits : \A j \in hits : i <= j

\* new URL(u) without a base, for identifiers over Letters, digits and
\* ":", "/", "?", "#", "=", "%": it throws unless u starts with a scheme (a
\* letter, then letters and digits, then ":"); after "//" comes the host,
\* up to the next "/", "?" or "#" (a host is required after http://); the
\* pathname runs from there to the "?" that starts the query or the "#"
\* that starts the fragment; "=" and "%" stay in the pathname as they are.
URL(u) ==
    LET colon == FirstOf(u, 1, {":"})
        hasScheme == /\ colon <= Len(u)
                     /\ colon > 1
                     /\ u[1] \in Letters
                     /\ \A i \in 1..(colon - 1) : u[i] \in SchemeChars
        scheme == SubSeq(u, 1, colon - 1)
        special == scheme = <<"h", "t", "t", "p">>
        slashes == /\ Len(u) >= colon + 2
                   /\ u[colon + 1] = "/"
                   /\ u[colon + 2] = "/"
        hostFrom == colon + 3
        hostEnd == FirstOf(u, hostFrom, {"/", "?", "#"})
        pathFrom == IF slashes THEN hostEnd ELSE colon + 1
        pathEnd == FirstOf(u, pathFrom, {"?", "#"})
    IN IF ~hasScheme THEN [ok |-> FALSE]
       ELSE IF special /\ (~slashes \/ hostEnd = hostFrom) THEN [ok |-> FALSE]
       ELSE [ok |-> TRUE, pathname |-> SubSeq(u, pathFrom, pathEnd - 1)]

\* The check on request.params.uri of the read handler
ValidResourceUriAnyBoard(uri) == \E i \in 1..Len(uri) : uri[i] = "b"

ValidResourceUri(uri) == startsWith(uri, Prefix)

InvalidUriError == TypeError("Invalid Miro resource URI - must start with miro://board/")

\* The ReadResourceRequestSchema handler, up to its await
Read(s, uri) ==
    LET c == [kind |-> "read", name |-> "resources/read", args |-> [uri |-> uri]]
        url == URL(uri)
    IN IF ~url.ok
       THEN EndAtOnce(s, c, ErrorResult(TypeError("Invalid URL")))
       ELSE IF ~ValidResourceUri(uri)
       THEN EndAtOnce(s, c, ErrorResult(InvalidUriError))
       ELSE Await(s, c, getBoardItems(substring1(url.pathname)))

\* A read of an identifier of the caller's choice
ReadResource(s) ==
    /\ Idle(s)
    /\ \E uri \in Uris : Read(s, uri)

\* The ListResourcesRequestSchema handler, up to its await
ListResources(s) ==
    /\ Idle(s)
    /\ Await(s, [kind |-> "list", name |-> "resources/list", args |-> Obj0], getBoards)

\* A read, by slot s, of an identifier that the listing answered in slot t
\* has produced
ReadListed(s, t) ==
    /\ Idle(s)
    /\ pc[t] = "done" /\ call[t].name = "resources/list" /\ result[t].kind = "ok"
    /\ \E j \in 1..Len(result[t].resources) : Read(s, result[t].resources[j].uri)

\* The result of slot s is handed to the caller; the slot serves the next
\* one. The locals of the handler are gone with its return.
Returned(s) ==
    /\ proc.state = "running"
    /\ pc[s] = "done"
    /\ pc' = [pc EXCEPT ![s] = "idle"]
    /\ call' = [call EXCEPT ![s] = NoCall]
    /\ acc' = [acc EXCEPT ![s] = Acc0]
    /\ log' = [log EXCEPT ![s] = <<>>]
    /\ headers' = [headers EXCEPT ![s] = <<>>]
    /\ inflight' = [inflight EXCEPT ![s] = {}]
    /\ outcomes' = [outcomes EXCEPT ![s] = <<>>]
    /\ result' = [result EXCEPT ![s] = NoResult]

Return(s) == Returned(s) /\ UNCHANGED proc

\* The same step, observed by the count of the invocations answered
MaxServed == 2

ReturnCountedKeepAcc(s) ==
    /\ proc.state = "running"
    /\ pc[s] = "done"
    /\ pc' = [pc EXCEPT ![s] = "idle"]
    /\ call' = [call EXCEPT ![s] = NoCall]
    /\ log' = [log EXCEPT ![s] = <<>>]
    /\ headers' = [headers EXCEPT ![s] = <<>>]
    /\ inflight' = [inflight EXCEPT ![s] = {}]
    /\ outcomes' = [outcomes EXCEPT ![s] = <<>>]
    /\ result' = [result EXCEPT ![s] = NoResult]
    /\ proc' = [proc EXCEPT !.served = IF @ < MaxServed THEN @ + 1 ELSE @]
    /\ UNCHANGED acc

ReturnCounted(s) ==
    /\ Returned(s)
    /\ proc' = [proc EXCEPT !.served = IF @ < MaxServed THEN @ + 1 ELSE @]

Next ==
    \/ Startup
    \/ CallCreateStickyNote(Main)
    \/ CallBulkDelete(Main)
    \/ CallBulkCreate(Main)
    \/ CallCreateShape(Main)
    \/ CallCreateConnector(Main)
    \/ CallCreateFrame(Main)
    \/ CallCreateCard(Main)
    \/ CallGetAllItems(Main)
    \/ CallListBoards(Main)
    \/ CallGetSpecificItem(Main)
    \/ CallUpdateItemPosition(Main)
    \/ CallDeleteItem(Main)
    \/ CallGetStickyNote(Main)
    \/ CallUpdateStickyNote(Main)
    \/ CallDeleteStickyNote(Main)
    \/ CallGetConnectors(Main)
    \/ CallGetConnector(Main)
    \/ CallUpdateConnector(Main)
    \/ CallDeleteConnector(Main)
    \/ CallGetFrames(Main)
    \/ CallGetItemsInFrame(Main)
    \/ CallCreateText(Main)
    \/ \E name \in UnknownNames, args \in GetAllItemsArgs : CallUnknown(Main, name, args)
    \/ ReadResource(Main)
    \/ ListResources(Main)
    \/ Respond(Main)
    \/ Return(Main)

Spec == Init /\ [][Next]_vars

\* A caller that lists the resources and, with the listing in hand, reads
\* the identifiers it holds in a second request.
Reader == "b"

NextRes ==
    \/ Startup
    \/ ListResources(Main)
    \/ Respond(Main)
    \/ Return(Main)
    \/ ReadListed(Reader, Main)
    \/ Respond(Reader)
    \/ Return(Reader)

SpecRes == Init /\ [][NextRes]_vars

\* Two callers whose bulk_delete_items invocations can overlap: the handler
\* of one runs while the other is suspended at its await.
MaxConcIds == 2
ConcArgs == {[boardId |-> "B1", itemIds |-> ids] : ids \in SeqsUpTo(ItemIdSet, MaxConcIds)}
ConcResponses ==
    {[status |-> 200, body |-> ItemBody], [status |-> 404, body |-> MessageBody]}

NextConc ==
    \/ Startup
    \/ \E s \in Slots : CallBulkDeleteOf(s, ConcArgs)
    \/ \E s \in Slots : RespondOf(s, ConcResponses)
    \/ \E s \in Slots : Return(s)

SpecConc == Init /\ [][NextConc]_vars

\* One caller whose invocations follow one another
NextSeq ==
    \/ Startup
    \/ CallBulkDeleteOf(Main, ConcArgs)
    \/ CallCreateStickyNote(Main)
    \/ \E name \in UnknownNames : CallUnknown(Main, name, Obj0)
    \/ Respond(Main)
    \/ ReturnCounted(Main)

SpecSeq == Init /\ [][NextSeq]_vars

\* The bulk deletes of one caller, with an upstream that answers every
\* request it is sent.
NextLive ==
    \/ Startup
    \/ CallBulkDelete(Main)
    \/ RespondOf(Main, ConcResponses)
    \/ Return(Main)

SpecLive == Init /\ [][NextLive]_vars /\ WF_vars(RespondOf(Main, ConcResponses))

\* ================================================================= claims
IsTool(s, name) == call[s].kind = "tool" /\ call[s].name = name
Sent(s) == pc[s] \in {"awaiting", "done"} /\ Len(log[s]) > 0

\* The deletes of the invocation of slot s that failed: the positions whose
\* deleteItem call was rejected
FailedDeletes(s) == {j \in 1..Len(outcomes[s]) : ~outcomes[s][j].out.ok}

\* C1: a finished bulk_delete_items over N ids of which K deletes failed
\* has issued one delete per id, in the order of itemIds, and its result
\* reports N-K deleted items and K errors.
C1_BulkDeleteCounts ==
    \A s \in Slots :
        (pc[s] = "done" /\ IsTool(s, "bulk_delete_items") /\ Has(call[s].args, "itemIds")) =>
            LET ids == call[s].args["itemIds"]
                N == Len(ids)
                K == Cardinality(FailedDeletes(s))
            IN /\ Len(log[s]) = N
               /\ Len(outcomes[s]) = N
               /\ \A j \in 1..N : log[s][j] = deleteItem(Tpl(call[s].args, "boardId"), ids[j])
               /\ result[s].kind = "ok"
               /\ result[s].deleted = N - K
               /\ result[s].errors = K

\* Three ids, the first delete failed, a later one succeeded.
C1_Witness ==
    /\ pc[Main] = "done" /\ IsTool(Main, "bulk_delete_items")
    /\ Len(outcomes[Main]) = 3
    /\ ~outcomes[Main][1].out.ok
    /\ outcomes[Main][3].out.ok
    /\ result[Main].deleted = 1 /\ result[Main].errors = 2

\* C2: an invocation whose name is no case of the switch ends with the
\* Unknown tool error and has issued no request.
C2_UnknownToolNoRequest ==
    \A s \in Slots :
        (call[s].kind = "tool" /\ call[s].name \notin ToolNames) =>
            /\ pc[s] = "done"
            /\ log[s] = <<>>
            /\ result[s] = ErrorResult(TypeError("Unknown tool"))

C2_Witness ==
    /\ pc[Main] = "done" /\ IsTool(Main, "frobnicate")
    /\ Has(call[Main].args, "boardId")
    /\ result[Main].kind = "error"

\* C3: an invocation of a registered tool that leaves out an argument its
\* schema requires issues no request and ends with an error.
C3_MissingRequiredRejected ==
    \A s \in Slots :
        (/\ call[s].kind = "tool" /\ call[s].name \in ToolNames
         /\ ~(Required(call[s].name) \subseteq DOMAIN call[s].args)) =>
            /\ log[s] = <<>>
            /\ pc[s] = "done"
            /\ result[s].kind = "error"

\* C4: the deletes of a bulk_delete_items invocation are in flight one at a
\* time, in the order of itemIds: the request of position i+1 is issued
\* only once the requests of positions 1..i have all been answered.
C4_DeletesOneAtATime ==
    \A s \in Slots :
        (IsTool(s, "bulk_delete_items") /\ Has(call[s].args, "itemIds")) =>
            LET ids == call[s].args["itemIds"] IN
            /\ Cardinality(inflight[s]) <= 1
            /\ \A j \in 1..Len(outcomes[s]) : outcomes[s][j].req = j
            /\ \A j \in 1..Len(log[s]) :
                   log[s][j] = deleteItem(Tpl(call[s].args, "boardId"), ids[j])
            /\ pc[s] = "awaiting" =>
                   /\ Len(log[s]) = Len(outcomes[s]) + 1
                   /\ inflight[s] = {Len(log[s])}
            /\ pc[s] = "done" => inflight[s] = {} /\ Len(log[s]) = Len(outcomes[s])

\* The second delete is in flight after the first one failed.
C4_Witness ==
    /\ pc[Main] = "awaiting" /\ IsTool(Main, "bulk_delete_items")
    /\ Len(outcomes[Main]) = 1 /\ ~outcomes[Main][1].out.ok
    /\ inflight[Main] = {2}

\* C5: a finished bulk_delete_items over a non-empty list returns the
\* summary as a normal result, whichever deletes failed.
C5_BulkDeleteNeverRaises ==
    \A s \in Slots :
        (/\ pc[s] = "done" /\ IsTool(s, "bulk_delete_items")
         /\ Has(call[s].args, "itemIds") /\ Len(call[s].args["itemIds"]) > 0) =>
            /\ result[s].kind = "ok"
            /\ result[s] = BulkDeleteResult(acc[s])
            /\ Len(acc[s].errors) = Cardinality(FailedDeletes(s))

\* Every delete of a list of two or more ids failed.
C5_Witness ==
    /\ pc[Main] = "done" /\ IsTool(Main, "bulk_delete_items")
    /\ Len(outcomes[Main]) >= 2
    /\ \A j \in 1..Len(outcomes[Main]) : ~outcomes[Main][j].out.ok
    /\ result[Main].kind = "ok" /\ result[Main].deleted = 0

\* C6: a bulk_create_items invocation issues exactly one request, the POST
\* to the bulk endpoint of the board, whatever the number of items; when it
\* is answered with a status >= 400 the invocation ends as an error and no
\* further request is issued.
C6_BulkCreateOneRequest ==
    \A s \in Slots :
        IsTool(s, "bulk_create_items") =>
            /\ Len(log[s]) = 1
            /\ log[s][1].method = "POST"
            /\ log[s][1].path = <<"/boards/", Tpl(call[s].args, "boardId"), "/items/bulk">>
            /\ Has(call[s].args, "items") =>
                   log[s][1].hasBody /\ log[s][1].body = call[s].args["items"]
            /\ pc[s] = "awaiting" => inflight[s] = {1}
            /\ (pc[s] = "done" /\ outcomes[s][1].resp.status >= 400) =>
                   result[s].kind = "error"

\* Two items were sent and the upstream refused the batch.
C6_Witness ==
    /\ pc[Main] = "done" /\ IsTool(Main, "bulk_create_items")
    /\ Has(call[Main].args, "items") /\ Len(call[Main].args["items"]) = 2
    /\ outcomes[Main][1].resp.status >= 400
    /\ result[Main].kind = "error"
    /\ Len(log[Main]) = 1

\* C7: a resource read whose identifier does not start with miro://board/
\* ends with an error and issues no request.
C7_ForeignUriRejected ==
    \A s \in Slots :
        (call[s].kind = "read" /\ ~startsWith(call[s].args["uri"], Prefix)) =>
            /\ pc[s] = "done"
            /\ log[s] = <<>>
            /\ result[s].kind = "error"

\* An identifier that parses as a URL of another scheme was refused.
C7_Witness ==
    /\ pc[Main] = "done" /\ call[Main].kind = "read"
    /\ URL(call[Main].args["uri"]).ok
    /\ startsWith(call[Main].args["uri"], <<"h", "t", "t", "p", ":">>)
    /\ result[Main] = ErrorResult(InvalidUriError)

\* C8: the payload of every create_shape request carries the shape argument
\* under data.shape and has no data.type.
C8_ShapeUnderDataShape ==
    \A s \in Slots :
        (IsTool(s, "create_shape") /\ Sent(s)) =>
            LET d == log[s][1].body["data"] IN
            /\ ~Has(d, "type")
            /\ Has(call[s].args, "shape") =>
                   Has(d, "shape") /\ d["shape"] = call[s].args["shape"]

C8_Witness ==
    /\ IsTool(Main, "create_shape") /\ Sent(Main)
    /\ Has(call[Main].args, "type")
    /\ Has(call[Main].args, "shape") /\ call[Main].args["shape"] = "circle"
    /\ log[Main][1].body["data"]["shape"] = "circle"

\* C9: an optional field that is left out as a whole is sent with its
\* documented default.
C9_DefaultsApplied ==
    \A s \in Slots :
        (call[s].kind = "tool" /\ Sent(s)) =>
            LET a == call[s].args
                p == log[s][1].body
            IN /\ IsTool(s, "create_sticky_note") =>
                   /\ ~Has(a, "color") => p["style"] = [fillColor |-> "yellow"]
                   /\ ~Has(a, "x") => p["position"]["x"] = 0
                   /\ ~Has(a, "y") => p["position"]["y"] = 0
               /\ IsTool(s, "create_shape") =>
                   /\ ~Has(a, "position") => p["position"] = [x |-> 0, y |-> 0]
                   /\ ~Has(a, "geometry") =>
                          p["geometry"] = [width |-> 200, height |-> 200, rotation |-> 0]
               /\ IsTool(s, "create_frame") =>
                   (~Has(a, "geometry") => p["geometry"] = [width |-> 800, height |-> 600])
               /\ IsTool(s, "create_card") =>
                   (~Has(a, "geometry") => p["geometry"] = [width |-> 320, height |-> 176])
               /\ IsTool(s, "create_connector") =>
                   (~Has(a, "shape") => p["shape"] = "curved")

\* create_shape with neither position nor geometry has been sent.
C9_Witness ==
    /\ IsTool(Main, "create_shape") /\ Sent(Main)
    /\ ~Has(call[Main].args, "position") /\ ~Has(call[Main].args, "geometry")
    /\ log[Main][1].body["geometry"]["width"] = 200

\* C10: a create_shape invocation without the shape argument sends
\* data.shape = "rectangle".
C10_ShapeDefaultsToRectangle ==
    \A s \in Slots :
        (IsTool(s, "create_shape") /\ Sent(s) /\ ~Has(call[s].args, "shape")) =>
            LET d == log[s][1].body["data"] IN
            Has(d, "shape") /\ d["shape"] = "rectangle"

\* C11: an invocation that ends as an error (unknown tool, refused
\* resource identifier, upstream status >= 400) leaves the process running,
\* and the next step of its slot hands the error to the caller and frees
\* the slot for the next request.
C11_FailuresAreNotFatal ==
    /\ [](\A s \in Slots :
            (pc[s] = "done" /\ result[s].kind = "error") => proc.state = "running")
    /\ [][\A s \in Slots :
            (pc[s] = "done" /\ result[s].kind = "error") =>
                /\ proc'.state = "running"
                /\ pc'[s] \in {"done", "idle"}
                /\ pc'[s] = "done" => result'[s] = result[s]]_vars
    /\ [][proc.state = "running" => proc'.state = "running"]_vars

\* An invocation failed on an upstream status >= 400 and the server runs.
C11_Witness ==
    /\ proc.state = "running"
    /\ pc[Main] = "done" /\ call[Main].kind = "tool"
    /\ result[Main].kind = "error"
    /\ outcomes[Main] # <<>> /\ outcomes[Main][1].resp.status >= 400

\* C19: without a token the process exits with code 1 before it serves a
\* request or issues one; it exits in no other case, and never once it runs.
C19_ExitOnlyWithoutToken ==
    /\ [](/\ (proc.state # "starting" /\ proc.argv = "" /\ proc.env = "") =>
                 proc.state = "exited"
          /\ proc.state = "exited" =>
                 /\ proc.argv = "" /\ proc.env = ""
                 /\ proc.code = 1
                 /\ \A s \in Slots : pc[s] = "idle" /\ log[s] = <<>> /\ call[s] = NoCall
          /\ proc.state = "running" => proc.token # "")
    /\ [][proc.state = "exited" => proc'.state = "exited"]_vars
    /\ [][proc.state = "running" => proc'.state = "running"]_vars
    /\ [][(\E s \in Slots : pc'[s] # pc[s] \/ log'[s] # log[s]) =>
              proc.state = "running"]_vars

C19_Witness ==
    /\ proc.state = "exited" /\ proc.code = 1
    /\ proc.argv = "" /\ proc.env = ""

\* The decoded body of an answer, as the message the service gave or ""
ServiceMessage(resp) ==
    IF resp.body.json /\ Has(resp.body.fields, "message") THEN resp.body.fields["message"] ELSE ""

\* C12: every client call answered with a status >= 400 fails with an error
\* that carries the status code and the message of the service, and every
\* call answered with a status below 400 returns the decoded body (stated
\* for the answers that have a body to decode).
C12_RemoteErrorCarriesStatusAndMessage ==
    \A s \in Slots : \A j \in 1..Len(outcomes[s]) :
        LET o == outcomes[s][j] IN
        /\ o.resp.status >= 400 =>
               /\ ~o.out.ok
               /\ o.out.error.status = o.resp.status
               /\ o.out.error.detail = ServiceMessage(o.resp)
        /\ (o.resp.status < 400 /\ o.resp.body.json) =>
               /\ o.out.ok
               /\ o.out.value = o.resp.body.fields

\* C13: a request answered with 204 and no body returns without failing, so
\* the delete it belongs to is reported (and, in a bulk delete, counted) as
\* a success.
C13_NoContentIsSuccess ==
    \A s \in Slots :
        /\ \A j \in 1..Len(outcomes[s]) :
               outcomes[s][j].resp.status = 204 => outcomes[s][j].out.ok
        /\ (pc[s] = "done" /\ IsTool(s, "delete_item") /\ outcomes[s][1].resp.status = 204) =>
               result[s].kind = "ok"
        /\ (pc[s] = "done" /\ IsTool(s, "bulk_delete_items") /\ Has(call[s].args, "itemIds")) =>
               result[s].deleted >=
                   Cardinality({j \in 1..Len(outcomes[s]) : outcomes[s][j].resp.status = 204})

\* The members of seq at the positions of P, from position j on, in order
RECURSIVE AtPositions(_, _, _)
AtPositions(seq, P, j) ==
    IF j > Len(seq) THEN <<>>
    ELSE (IF j \in P THEN <<seq[j]>> ELSE <<>>) \o AtPositions(seq, P, j + 1)

\* The ids of the invocation of slot s whose delete succeeded, and the
\* failures ({itemId, error}) of the others, both in the order of itemIds
DeletedIds(s) ==
    LET ids == call[s].args["itemIds"]
    IN AtPositions(ids, (1..Len(ids)) \ FailedDeletes(s), 1)

Failures(s) ==
    LET ids == call[s].args["itemIds"]
        all == [j \in 1..Len(ids) |->
                   [itemId |-> ids[j],
                    error |-> IF outcomes[s][j].out.ok THEN NoError
                              ELSE outcomes[s][j].out.error]]
    IN AtPositions(all, FailedDeletes(s), 1)

BulkDeleteDone(s) ==
    pc[s] = "done" /\ IsTool(s, "bulk_delete_items") /\ Has(call[s].args, "itemIds")

ListCall(s) ==
    \/ call[s].kind = "read"
    \/ /\ call[s].kind = "tool"
       /\ call[s].name \in {"get_all_items", "get_connectors", "get_frames", "get_items_in_frame"}

C15_ListForwardsPaging ==
    \A s \in Slots :
        (ListCall(s) /\ Sent(s)) =>
            LET a == call[s].args
                q == log[s][1].query
            IN /\ Has(a, "limit") => (Has(q, "limit") /\ q["limit"] = a["limit"])
               /\ Has(a, "cursor") => (Has(q, "cursor") /\ q["cursor"] = a["cursor"])
               /\ (/\ pc[s] = "done" /\ outcomes[s][1].out.ok
                   /\ Has(outcomes[s][1].resp.body.fields, "cursor")) =>
                      /\ Has(result[s], "json")
                      /\ Has(result[s].json, "cursor")
                      /\ result[s].json["cursor"] = outcomes[s][1].resp.body.fields["cursor"]

\* C16: a tool invocation other than bulk_delete_items issues at most one
\* request, and exactly one when its name is registered and its required
\* arguments are given.
C16_OneRequestPerInvocation ==
    \A s \in Slots :
        (call[s].kind = "tool" /\ call[s].name # "bulk_delete_items") =>
            /\ Len(log[s]) <= 1
            /\ Cardinality(inflight[s]) <= 1
            /\ (/\ call[s].name \in ToolNames
                /\ Required(call[s].name) \subseteq DOMAIN call[s].args) =>
                   Len(log[s]) = 1

C16_Witness ==
    /\ pc[Main] = "done" /\ IsTool(Main, "update_item_position")
    /\ Required("update_item_position") \subseteq DOMAIN call[Main].args
    /\ Len(log[Main]) = 1 /\ Len(outcomes[Main]) = 1

ReadTools ==
    {"list_boards", "get_all_items", "get_specific_item", "get_sticky_note",
     "get_connectors", "get_connector", "get_frames", "get_items_in_frame"}

Succeeded(s) ==
    /\ pc[s] = "done" /\ call[s].kind = "tool" /\ call[s].name \in ToolNames
    /\ result[s].kind = "ok" /\ Len(outcomes[s]) > 0

\* A confirmation: a text block, or the counts of a bulk operation
IsConfirmation(res) == Has(res, "text") \/ Has(res, "tmpl")

\* C17 (as amended): a read operation other than list_boards returns the
\* JSON text of what its client call returned (the decoded payload; for
\* get_frames and get_items_in_frame the data array of the payload);
\* list_boards returns a heading and one text line per board with its id
\* and name; a mutating operation returns a confirmation text.
C17_ReadsAsJsonWritesAsText ==
    \A s \in Slots :
        Succeeded(s) =>
            LET n == call[s].name
                o == outcomes[s][Len(outcomes[s])]
            IN /\ n \in {"get_all_items", "get_specific_item", "get_sticky_note",
                         "get_connectors", "get_connector"} =>
                      result[s] = [kind |-> "ok", json |-> o.out.value]
               /\ n \in {"get_frames", "get_items_in_frame"} =>
                      result[s] = [kind |-> "ok",
                                   jsonArray |-> IF Has(o.resp.body.fields, "data")
                                                 THEN o.resp.body.fields["data"] ELSE <<>>]
               /\ n = "list_boards" =>
                      /\ Has(result[s], "blocks")
                      /\ Len(result[s].blocks) = Len(o.resp.body.fields["data"]) + 1
                      /\ \A j \in 1..Len(o.resp.body.fields["data"]) :
                             result[s].blocks[j + 1] =
                                 <<"Board ID: ", Tpl(o.resp.body.fields["data"][j], "id"),
                                   ", Name: ", Tpl(o.resp.body.fields["data"][j], "name")>>
               /\ n \notin ReadTools => IsConfirmation(result[s])

\* get_specific_item has returned the payload of the upstream as JSON.
C17_Witness ==
    /\ Succeeded(Main) /\ call[Main].name = "get_specific_item"
    /\ outcomes[Main][1].resp.body = ItemBody
    /\ result[Main] = [kind |-> "ok", json |-> [id |-> "n1"]]

\* C17 (as claimed): every read operation returns the full payload of the
\* upstream as JSON, every mutating operation a confirmation text.
C17_ReadsReturnFullPayload ==
    \A s \in Slots :
        Succeeded(s) =>
            /\ call[s].name \in ReadTools =>
                   /\ Has(result[s], "json")
                   /\ result[s].json = outcomes[s][1].resp.body.fields
            /\ call[s].name \notin ReadTools => IsConfirmation(result[s])

\* C18: get_items_in_frame issues one list request on the board, filtered
\* by the frame as parent, and returns the item array of the answer as is.
C18_ItemsInFrame ==
    \A s \in Slots :
        (IsTool(s, "get_items_in_frame") /\ Sent(s)) =>
            /\ Len(log[s]) = 1
            /\ log[s][1].method = "GET"
            /\ log[s][1].path = <<"/boards/", Tpl(call[s].args, "boardId"), "/items">>
            /\ Has(log[s][1].query, "parent_item_id")
            /\ log[s][1].query["parent_item_id"] = Tpl(call[s].args, "frameId")
            /\ (/\ pc[s] = "done" /\ outcomes[s][1].out.ok
                /\ Has(outcomes[s][1].resp.body.fields, "data")) =>
                   result[s] = [kind |-> "ok",
                                jsonArray |-> outcomes[s][1].resp.body.fields["data"]]

C18_Witness ==
    /\ pc[Main] = "done" /\ IsTool(Main, "get_items_in_frame")
    /\ Has(call[Main].args, "frameId") /\ call[Main].args["frameId"] = "F2"
    /\ log[Main][1].query["parent_item_id"] = "F2"
    /\ result[Main].kind = "ok" /\ Len(result[Main].jsonArray) = 2

\* C20: the payload of every create_frame request has data.type =
\* "freeform" and data.format = "custom", whatever the caller gives, and
\* has no parent.
C20_FrameTypeForced ==
    \A s \in Slots :
        (IsTool(s, "create_frame") /\ Sent(s)) =>
            LET p == log[s][1].body IN
            /\ p["data"]["type"] = "freeform"
            /\ p["data"]["format"] = "custom"
            /\ ~Has(p, "parent")

\* The caller gave a type and a parent of its own.
C20_Witness ==
    /\ IsTool(Main, "create_frame") /\ Sent(Main)
    /\ Has(call[Main].args, "type") /\ Has(call[Main].args, "parent")
    /\ log[Main][1].body["data"]["type"] = "freeform"

\* The listing answered in slot Main, still in the caller's hands
Listed == pc[Main] = "done" /\ call[Main].name = "resources/list" /\ result[Main].kind = "ok"

\* C21: an identifier produced by the resource listing for a board is
\* accepted by the read, and the read requests the items of the board with
\* exactly the id the upstream gave, whatever characters the id holds.
C21_ListedUriReadsSameBoard ==
    Listed =>
        \A j \in 1..Len(result[Main].resources) :
            (/\ call[Reader].kind = "read"
             /\ call[Reader].args["uri"] = result[Main].resources[j].uri) =>
                /\ Sent(Reader)
                /\ log[Reader][1] =
                       getBoardItems(outcomes[Main][1].out.value["data"][j]["id"])

\* The bounds the input schemas declare for the two lists (maxItems)
MaxDeleteItems == 50
MaxCreateItems == 20

OutOfBounds(list, max) == Len(list) = 0 \/ Len(list) > max

Rejected(s) == pc[s] = "done" /\ result[s].kind = "error" /\ log[s] = <<>>

\* C22: a bulk_delete_items invocation issues at most 50 delete requests, a
\* bulk_create_items invocation sends at most 20 items, and an invocation
\* whose list is empty or longer than its bound is rejected without any
\* request.
C22_BatchBoundsEnforced ==
    \A s \in Slots :
        /\ (IsTool(s, "bulk_delete_items") /\ Has(call[s].args, "itemIds")) =>
               /\ Len(log[s]) <= MaxDeleteItems
               /\ OutOfBounds(call[s].args["itemIds"], MaxDeleteItems) => Rejected(s)
        /\ (IsTool(s, "bulk_create_items") /\ Has(call[s].args, "items")) =>
               /\ \A j \in 1..Len(log[s]) : Len(log[s][j].body) <= MaxCreateItems
               /\ OutOfBounds(call[s].args["items"], MaxCreateItems) => Rejected(s)

\* What the invocation of slot s has to have collected from the deletes
\* answered so far: the ids of its own itemIds whose delete succeeded, and
\* the failures of the others, in the order of itemIds
OwnDeleted(s) ==
    AtPositions(call[s].args["itemIds"], (1..Len(outcomes[s])) \ FailedDeletes(s), 1)

OwnFailures(s) ==
    LET ids == call[s].args["itemIds"]
        all == [j \in 1..Len(outcomes[s]) |->
                   [itemId |-> ids[j],
                    error |-> IF outcomes[s][j].out.ok THEN NoError
                              ELSE outcomes[s][j].out.error]]
    IN AtPositions(all, FailedDeletes(s), 1)

\* C23: when two bulk_delete_items invocations overlap, the result of each
\* counts and lists only the outcomes of the deletes of its own itemIds,
\* and no step of one invocation changes what the other has collected.
C23_OverlappingBulkDeletesApart ==
    /\ [](\A s \in Slots :
            (IsTool(s, "bulk_delete_items") /\ pc[s] \in {"awaiting", "done"}) =>
                /\ acc[s].results = OwnDeleted(s)
                /\ acc[s].errors = OwnFailures(s)
                /\ pc[s] = "done" =>
                       /\ Len(outcomes[s]) = Len(call[s].args["itemIds"])
                       /\ result[s].deleted = Len(OwnDeleted(s))
                       /\ result[s].detail = OwnFailures(s)
                       /\ result[s].deleted + result[s].errors = Len(call[s].args["itemIds"]))
    /\ [][\A s \in Slots :
            (pc'[s] = pc[s] /\ outcomes'[s] = outcomes[s]) =>
                (acc'[s] = acc[s] /\ log'[s] = log[s] /\ result'[s] = result[s])]_vars

\* Both invocations are suspended in the middle of their loops, the first
\* delete of one answered 200 and the first delete of the other 404.
C23_Witness ==
    /\ \A s \in Slots : IsTool(s, "bulk_delete_items") /\ pc[s] = "awaiting"
    /\ \A s \in Slots : Len(call[s].args["itemIds"]) = 2 /\ Len(outcomes[s]) = 1
    /\ acc[Main].results = <<call[Main].args["itemIds"][1]>> /\ acc[Main].errors = <<>>
    /\ acc[Reader].results = <<>> /\ Len(acc[Reader].errors) = 1

\* C24: in a bulk_delete_items invocation every position of itemIds gets
\* exactly one delete request, in order and without retry, so the requests
\* are as many as the ids; and the invocation returns, provided that every
\* request is answered.
C24_OneDeletePerPositionAndReturn ==
    /\ [](\A s \in Slots :
            (IsTool(s, "bulk_delete_items") /\ Has(call[s].args, "itemIds")) =>
                LET ids == call[s].args["itemIds"] IN
                /\ Len(log[s]) <= Len(ids)
                /\ \A j \in 1..Len(log[s]) :
                       log[s][j] = deleteItem(Tpl(call[s].args, "boardId"), ids[j])
                /\ pc[s] = "done" => (Len(log[s]) = Len(ids) /\ Len(outcomes[s]) = Len(ids)))
    /\ \A s \in Slots :
           (IsTool(s, "bulk_delete_items") /\ pc[s] = "awaiting") ~> (pc[s] = "done")

\* Three deletes of the same id, the first of which failed
C24_Witness ==
    /\ BulkDeleteDone(Main)
    /\ call[Main].args["itemIds"] = <<"i2", "i2", "i2">>
    /\ FailedDeletes(Main) = {1}
    /\ Len(log[Main]) = 3
    /\ acc[Main].results = <<"i2", "i2">>

\* What the switch returns for the invocation of slot s, as a function of
\* its name, its arguments and the answers to its own requests
OwnResult(s) ==
    IF call[s].name = "bulk_delete_items"
    THEN BulkDeleteResult([results |-> OwnDeleted(s), errors |-> OwnFailures(s),
                           thrown |-> NoError])
    ELSE IF call[s].name \in ToolNames
    THEN Finish(call[s].name, call[s].args, fetchApi(outcomes[s][1].resp))
    ELSE ErrorResult(TypeError("Unknown tool"))

\* C25: nothing of an invocation is left when the next one starts, so what
\* an invocation requests and returns is a function of its name, its
\* arguments and the answers to its own requests, however many invocations
\* were answered before; and every request carries the token the process
\* took at startup.
C25_NoStateBetweenInvocations ==
    /\ [](\A s \in Slots :
            /\ Idle(s) =>
                   /\ call[s] = NoCall /\ acc[s] = Acc0 /\ result[s] = NoResult
                   /\ log[s] = <<>> /\ headers[s] = <<>>
                   /\ inflight[s] = {} /\ outcomes[s] = <<>>
            /\ (pc[s] = "done" /\ call[s].kind = "tool") => result[s] = OwnResult(s)
            /\ Len(headers[s]) = Len(log[s])
            /\ \A j \in 1..Len(headers[s]) :
                   /\ proc.token # ""
                   /\ headers[s][j].Authorization =
                          <<"Bearer ", oauthToken(proc.argv, proc.env)>>)
    /\ [][proc.state = "running" =>
            (proc'.state = "running" /\ proc'.token = proc.token)]_vars

\* After two answered invocations, a bulk delete of i1 and i2 has ended
\* with one deleted item and one error, its requests carrying the token.
C25_Witness ==
    /\ proc.served = 2
    /\ BulkDeleteDone(Main)
    /\ call[Main].args["itemIds"] = <<"i1", "i2">>
    /\ result[Main].deleted = 1 /\ result[Main].errors = 1
    /\ headers[Main][2].Authorization = <<"Bearer ", "tA">>

\* The geometry dimensions each schema declares with a default
GeometryDims(name) ==
    CASE name = "create_shape" -> {"width", "height", "rotation"}
      [] name = "create_text" -> {"width"}
      [] OTHER -> {"width", "height"}

\* C26: the payload of every create_shape, create_frame, create_text and
\* create_card request has position.x and position.y defined and every
\* declared geometry dimension defined, also when the caller gives a
\* position or geometry that holds only some of its sub-fields.
C26_PositionAndGeometryComplete ==
    \A s \in Slots :
        (/\ call[s].kind = "tool"
         /\ call[s].name \in {"create_shape", "create_frame", "create_text", "create_card"}
         /\ Sent(s)) =>
            LET p == log[s][1].body IN
            /\ Has(p, "position")
            /\ {"x", "y"} \subseteq DOMAIN p["position"]
            /\ Has(p, "geometry")
            /\ GeometryDims(call[s].name) \subseteq DOMAIN p["geometry"]

====
